---- MODULE Spec2Model ----
(***************************************************************************)
(* Model of src/src/data_processing.py (skip-gram data preparation) and of *)
(* its driver src/src/prueba.py.                                           *)
(*                                                                         *)
(* Python lists are TLA+ sequences; the code's 0-based positions are kept  *)
(* as they are and At(s, i) reads position i.  Dictionaries are functions  *)
(* whose DOMAIN is the key set.  Every random draw of the code             *)
(* (torch.rand, torch.randint) is a nondeterministic choice.               *)
(***************************************************************************)
EXTENDS Integers, Sequences, FiniteSets, TLC

VARIABLES
    pc,              \* position of the running script / call
    words,           \* tokens (List[str]) given to the vocabulary builder
    vocab_to_int,    \* create_lookup_tables: token -> id
    int_to_vocab,    \* create_lookup_tables: id -> token
    threshold,       \* subsample_words: threshold
    keep_prob,       \* subsample_words: torch.rand(len(int_words))
    train_words,     \* subsample_words: the ids that survive
    freqs,           \* subsample_words: token -> relative frequency
    gt,              \* get_target call frame: words, idx, window_size, R, result
    gb,              \* get_batches generator frame
    cs               \* cosine_similarity call frame

vars == <<pc, words, vocab_to_int, int_to_vocab, threshold, keep_prob, train_words, freqs, gt, gb, cs>>

(***************************************************************************)
(* Bounds of the model.                                                    *)
(***************************************************************************)
MaxLen == 4
MaxWindow == 2
MaxBatch == 3

Tokens == {"a", "b", "c"}
Ids == {0, 1, 2}

\* All sequences over S of length at most n.
SeqUpTo(S, n) == UNION {[1..k -> S] : k \in 0..n}

\* Python's s[i] for 0 <= i < len(s).
At(s, i) == s[i + 1]

Min(x, y) == IF x <= y THEN x ELSE y
Max(x, y) == IF x >= y THEN x ELSE y

EmptyMap == [x \in {} |-> 0]
Idle == [state |-> "idle"]

(***************************************************************************)
(* create_lookup_tables                                                    *)
(***************************************************************************)

\* Number of occurrences of w in the list ws.
CountOf(w, ws) == Cardinality({k \in 1..Len(ws) : ws[k] = w})

\* The distinct elements of ws in first-seen order (the key order of a
\* dict filled by one pass over ws).
RECURSIVE FirstSeen(_)
FirstSeen(ws) ==
    IF ws = <<>> THEN <<>>
    ELSE LET n == Len(ws)
             front == FirstSeen(SubSeq(ws, 1, n - 1))
         IN IF \E k \in 1..(n - 1) : ws[k] = ws[n] THEN front
            ELSE Append(front, ws[n])

\* A Counter with one key per element of the list, no merging of equal keys.
CounterNoMerge(ws) == [k \in 1..Len(ws) |-> [word |-> ws[k], count |-> 1]]

\* Counter(words): the (word, count) items, in first-seen order.
Counter(ws) ==
    LET keys == FirstSeen(ws)
    IN [k \in 1..Len(keys) |-> [word |-> keys[k], count |-> CountOf(keys[k], ws)]]

\* Insert item x into the list s sorted by descending count, after every
\* item whose count is at least x's (a stable sort keeps equal keys in
\* their original order).
RECURSIVE InsertDesc(_, _)
InsertDesc(s, x) ==
    IF s = <<>> THEN <<x>>
    ELSE IF s[1].count >= x.count THEN <<s[1]>> \o InsertDesc(Tail(s), x)
    ELSE <<x>> \o s

RECURSIVE SortDescStable(_)
SortDescStable(items) ==
    IF items = <<>> THEN <<>>
    ELSE LET n == Len(items)
         IN InsertDesc(SortDescStable(SubSeq(items, 1, n - 1)), items[n])

\* Sorts by ascending count instead of descending.
RECURSIVE InsertAsc(_, _)
InsertAsc(s, x) ==
    IF s = <<>> THEN <<x>>
    ELSE IF s[1].count <= x.count THEN <<s[1]>> \o InsertAsc(Tail(s), x)
    ELSE <<x>> \o s

RECURSIVE SortAscStable(_)
SortAscStable(items) ==
    IF items = <<>> THEN <<>>
    ELSE LET n == Len(items)
         IN InsertAsc(SortAscStable(SubSeq(items, 1, n - 1)), items[n])

\* Counter.most_common(): sorted(items, key=count, reverse=True).
MostCommon(items) == SortDescStable(items)

\* sorted_vocab = [word for word, _ in word_counts.most_common()]
SortedVocab(ws) ==
    LET mc == MostCommon(Counter(ws))
    IN [k \in 1..Len(mc) |-> mc[k].word]

\* int_to_vocab = {i: word for i, word in enumerate(sorted_vocab)}
IntToVocab(sorted_vocab) ==
    [i \in 0..(Len(sorted_vocab) - 1) |-> At(sorted_vocab, i)]

\* vocab_to_int = {word: i for i, word in int_to_vocab.items()}: a later
\* item with the same key overwrites an earlier one.
VocabToInt(i2v) ==
    [w \in {i2v[i] : i \in DOMAIN i2v} |->
        CHOOSE i \in DOMAIN i2v :
            i2v[i] = w /\ \A j \in DOMAIN i2v : i2v[j] = w => j <= i]

CreateLookupTables ==
    /\ pc = "create_lookup_tables"
    /\ int_to_vocab' = IntToVocab(SortedVocab(words))
    /\ vocab_to_int' = VocabToInt(int_to_vocab')
    /\ pc' = "subsample_words"
    /\ UNCHANGED <<words, threshold, keep_prob, train_words, freqs, gt, gb, cs>>

(***************************************************************************)
(* subsample_words                                                         *)
(*                                                                         *)
(* Numbers.  A frequency is the exact quotient count / total.  A threshold *)
(* is [num, den, eps2], standing for num/den + eps2 * (1e-10 / 2): the     *)
(* second part places a threshold relative to the guard 1e-10 that the     *)
(* code adds to every frequency.  A draw of torch.rand is [num, den] with  *)
(* 0 <= num < den.  All quantities compared below are integers smaller     *)
(* than 1e5 once the denominators are cleared, while the 1e-10 parts stay  *)
(* below 1e-5, so comparing the main parts first and the 1e-10 parts only  *)
(* on a tie is the exact comparison of the real numbers.                   *)
(***************************************************************************)
Thresholds ==
    { [num |-> 0, den |-> 1, eps2 |-> 0],
      [num |-> 1, den |-> 4, eps2 |-> 0],
      [num |-> 1, den |-> 2, eps2 |-> 0],
      [num |-> 1, den |-> 2, eps2 |-> 1],
      [num |-> 1, den |-> 2, eps2 |-> 2],
      [num |-> 1, den |-> 2, eps2 |-> 3],
      [num |-> 1, den |-> 1, eps2 |-> 0],
      [num |-> 1, den |-> 1, eps2 |-> 3] }

UDraws ==
    { [num |-> 0, den |-> 1], [num |-> 1, den |-> 2], [num |-> 3, den |-> 4] }

\* int_words = [vocab_to_int[word] for word in words]
IntWords(ws, v2i) == [k \in 1..Len(ws) |-> v2i[ws[k]]]

\* torch.bincount(int_words, minlength): one count per id in
\* [0, max(minlength, max(int_words) + 1)).
Bincount(iw, minlength) ==
    LET top == IF iw = <<>> THEN 0
               ELSE 1 + CHOOSE m \in {iw[k] : k \in 1..Len(iw)} :
                            \A k \in 1..Len(iw) : iw[k] <= m
    IN [i \in 0..(Max(minlength, top) - 1) |-> CountOf(i, iw)]

\* keep_prob > probs[id], with probs[id] = 1 - sqrt(threshold / (c/n + 1e-10))
\* where c = word_counts[id] and n = total_count.  As 0 < 1 - u <= 1 and
\* the square root is >= 0:
\*     u > 1 - sqrt(t / (f + e))   iff   t > (1 - u)^2 * (f + e),
\* and both sides are multiplied by 2 * t.den * u.den^2 * n.
Keeps(u, t, c, n) ==
    LET d == u.den - u.num
        lmain == 2 * t.num * u.den * u.den * n
        leps  == t.eps2 * t.den * u.den * u.den * n
        rmain == 2 * d * d * c * t.den
        reps  == 2 * d * d * t.den * n
    IN lmain > rmain \/ (lmain = rmain /\ leps > reps)

\* Keeps with the comparison the wrong way round (keep_prob < probs).
KeepMaskFlipped(iw, kp, t, wc) ==
    [k \in 1..Len(iw) |-> ~Keeps(kp[k], t, wc[iw[k]], Len(iw))]

\* keep_prob > probs[int_words]: one boolean per position.
KeepMask(iw, kp, t, wc) ==
    [k \in 1..Len(iw) |-> Keeps(kp[k], t, wc[iw[k]], Len(iw))]

\* Indexing that returns the selected items last-to-first.
RECURSIVE BoolIndexReversed(_, _)
BoolIndexReversed(iw, mask) ==
    IF iw = <<>> THEN <<>>
    ELSE LET rest == BoolIndexReversed(Tail(iw), Tail(mask))
         IN IF mask[1] THEN Append(rest, iw[1]) ELSE rest

\* int_words[mask]: the items at the positions where mask is True.
RECURSIVE BoolIndex(_, _)
BoolIndex(iw, mask) ==
    IF iw = <<>> THEN <<>>
    ELSE LET rest == BoolIndex(Tail(iw), Tail(mask))
         IN IF mask[1] THEN <<iw[1]>> \o rest ELSE rest

\* {word: freqs[i].item() for word, i in vocab_to_int.items()}
FreqTable(v2i, wc, n) ==
    [w \in DOMAIN v2i |-> [num |-> wc[v2i[w]], den |-> n]]

SubsampleWords ==
    /\ pc = "subsample_words"
    /\ \E kp \in [1..Len(words) -> UDraws] :
        LET int_words == IntWords(words, vocab_to_int)
            total_count == Len(int_words)
            word_counts == Bincount(int_words, Cardinality(DOMAIN vocab_to_int))
        IN /\ keep_prob' = kp
           /\ train_words' = BoolIndex(int_words, KeepMask(int_words, kp, threshold, word_counts))
           /\ freqs' = FreqTable(vocab_to_int, word_counts, total_count)
    /\ pc' = "done"
    /\ UNCHANGED <<words, vocab_to_int, int_to_vocab, threshold, gt, gb, cs>>

\* prueba.py: tokens -> create_lookup_tables -> subsample_words.
Init ==
    /\ pc = "create_lookup_tables"
    /\ words \in SeqUpTo(Tokens, MaxLen)
    /\ threshold \in Thresholds
    /\ vocab_to_int = EmptyMap
    /\ int_to_vocab = EmptyMap
    /\ keep_prob = <<>>
    /\ train_words = <<>>
    /\ freqs = EmptyMap
    /\ gt = Idle
    /\ gb = Idle
    /\ cs = Idle

Next ==
    \/ CreateLookupTables
    \/ SubsampleWords

Spec == Init /\ [][Next]_vars

(***************************************************************************)
(* get_target                                                              *)
(***************************************************************************)

\* for i in range(i, end): if i != idx: target_words.append(words[i])
RECURSIVE TargetLoop(_, _, _, _)
TargetLoop(ws, idx, i, end) ==
    IF i >= end THEN <<>>
    ELSE (IF i /= idx THEN <<At(ws, i)>> ELSE <<>>) \o TargetLoop(ws, idx, i + 1, end)

\* The loop without the test i != idx.
RECURSIVE CopyLoop(_, _, _)
CopyLoop(ws, i, end) ==
    IF i >= end THEN <<>> ELSE <<At(ws, i)>> \o CopyLoop(ws, i + 1, end)

\* The window with the item at idx left in.
GetTargetNoSkip(ws, idx, R) ==
    CopyLoop(ws, Max(0, idx - R), Min(Len(ws), idx + R + 1))

\* The body of get_target once R is drawn.
GetTargetR(ws, idx, R) ==
    LET start == Max(0, idx - R)
        end == Min(Len(ws), idx + R + 1)
    IN TargetLoop(ws, idx, start, end)

\* get_target(words, idx, window_size); R = torch.randint(1, window_size + 1).
\* No statement of the function raises: every position it reads lies in
\* [max(0, idx - R), len(words)).
GetTarget ==
    /\ pc = "get_target"
    /\ gt.state = "called"
    /\ \E R \in 1..gt.window_size :
        gt' = [gt EXCEPT !.state = "returned", !.R = R,
                         !.target_words = GetTargetR(gt.words, gt.idx, R)]
    /\ UNCHANGED <<pc, words, vocab_to_int, int_to_vocab, threshold, keep_prob, train_words, freqs, gb, cs>>

InitTarget ==
    /\ pc = "get_target"
    /\ \E ws \in SeqUpTo(Ids, MaxLen) :
       \E idx \in (0 - MaxWindow - 1)..(Len(ws) + MaxWindow + 1) :
       \E window_size \in 1..MaxWindow :
            gt = [state |-> "called", words |-> ws, idx |-> idx,
                  window_size |-> window_size, R |-> 0, target_words |-> <<>>]
    /\ words = <<>>
    /\ threshold = [num |-> 0, den |-> 1, eps2 |-> 0]
    /\ vocab_to_int = EmptyMap
    /\ int_to_vocab = EmptyMap
    /\ keep_prob = <<>>
    /\ train_words = <<>>
    /\ freqs = EmptyMap
    /\ gb = Idle
    /\ cs = Idle

NextTarget == GetTarget

SpecTarget == InitTarget /\ [][NextTarget]_vars

(***************************************************************************)
(* get_batches                                                             *)
(***************************************************************************)

\* ws[lo:], ignoring the upper end of the slice.
SliceToEnd(ws, lo, hi) == SubSeq(ws, Min(lo, Len(ws)) + 1, Len(ws))

\* Python's ws[lo:hi] for 0 <= lo <= hi.
Slice(ws, lo, hi) == SubSeq(ws, Min(lo, Len(ws)) + 1, Min(hi, Len(ws)))

\* A list of one x whatever n is.
RepeatOnce(x, n) == <<x>>

\* [x] * n
Repeat(x, n) == [k \in 1..n |-> x]

\* A range that stops before a chunk shorter than step.
InRangeFullOnly(i, stop, step) == i + step <= stop

\* i, a multiple of step, is produced by range(0, stop, step).
InRange(i, stop, step) == i < stop

\* for i in range(i, len(batch)): ... ; Rs[i] is the R that the call
\* get_target(batch, i, window_size) draws.  Returns inputs and targets.
RECURSIVE BatchLoop(_, _, _)
BatchLoop(batch, Rs, i) ==
    IF i >= Len(batch) THEN [inputs |-> <<>>, targets |-> <<>>]
    ELSE LET target_context == GetTargetR(batch, i, Rs[i])
             rest == BatchLoop(batch, Rs, i + 1)
         IN [inputs |-> Repeat(At(batch, i), Len(target_context)) \o rest.inputs,
             targets |-> target_context \o rest.targets]

\* The value idx takes at the generator's next resumption.
NextIdx == IF gb.state = "created" THEN 0 ELSE gb.idx + gb.batch_size

\* next(generator): the loop produces another idx and the body runs up to
\* its yield.
NextBatch ==
    /\ pc = "get_batches"
    /\ gb.state \in {"created", "yielded"}
    /\ InRange(NextIdx, Len(gb.words), gb.batch_size)
    /\ LET idx == NextIdx
           batch == Slice(gb.words, idx, idx + gb.batch_size)
       IN \E Rs \in [0..(Len(batch) - 1) -> 1..gb.window_size] :
            LET out == BatchLoop(batch, Rs, 0)
            IN gb' = [gb EXCEPT !.state = "yielded", !.idx = idx, !.batch = batch,
                                !.inputs = out.inputs, !.targets = out.targets,
                                !.n_yielded = gb.n_yielded + 1]
    /\ UNCHANGED <<pc, words, vocab_to_int, int_to_vocab, threshold, keep_prob, train_words, freqs, gt, cs>>

\* next(generator): the range is exhausted, the generator returns.
StopIteration ==
    /\ pc = "get_batches"
    /\ gb.state \in {"created", "yielded"}
    /\ ~InRange(NextIdx, Len(gb.words), gb.batch_size)
    /\ gb' = [gb EXCEPT !.state = "done"]
    /\ UNCHANGED <<pc, words, vocab_to_int, int_to_vocab, threshold, keep_prob, train_words, freqs, gt, cs>>

InitBatches ==
    /\ pc = "get_batches"
    /\ \E ws \in SeqUpTo(Ids, MaxLen) :
       \E batch_size \in 1..MaxBatch :
       \E window_size \in 1..MaxWindow :
            gb = [state |-> "created", words |-> ws, batch_size |-> batch_size,
                  window_size |-> window_size, idx |-> 0, batch |-> <<>>,
                  inputs |-> <<>>, targets |-> <<>>, n_yielded |-> 0]
    /\ words = <<>>
    /\ threshold = [num |-> 0, den |-> 1, eps2 |-> 0]
    /\ vocab_to_int = EmptyMap
    /\ int_to_vocab = EmptyMap
    /\ keep_prob = <<>>
    /\ train_words = <<>>
    /\ freqs = EmptyMap
    /\ gt = Idle
    /\ cs = Idle

NextBatches ==
    \/ NextBatch
    \/ StopIteration

SpecBatches == InitBatches /\ [][NextBatches]_vars

(***************************************************************************)
(* cosine_similarity                                                       *)
(*                                                                         *)
(* embedding.weight is a list of V rows of two integers, each row of       *)
(* integer length, so that every quotient below is an exact fraction       *)
(* [num, den].                                                             *)
(***************************************************************************)
EmbedRows == { <<1, 0>>, <<0, 1>>, <<3, 4>>, <<0, 2>>, <<-1, 0>> }
ValidSizes == {2, 4}

Dot(v, w) == v[1] * w[1] + v[2] * w[2]

\* v.norm(): the length of the row v.
Norm(v) == CHOOSE r \in 0..Dot(v, v) : r * r = Dot(v, v)

\* embed_norm = embed_vectors / embed_vectors.norm(dim=1, keepdim=True)
EmbedNorm(weight) ==
    [j \in 1..Len(weight) |->
        [d \in 1..2 |-> [num |-> weight[j][d], den |-> Norm(weight[j])]]]

\* valid_vectors = embed_vectors[valid_examples]
ValidVectors(weight, valid_examples) ==
    [i \in 1..Len(valid_examples) |-> At(weight, valid_examples[i])]

\* torch.mm(a, b.t()) where the rows of a are integers and the rows of b
\* are fractions that share one denominator per row.
MatMulT(a, b) ==
    [i \in 1..Len(a) |->
        [j \in 1..Len(b) |->
            [num |-> a[i][1] * b[j][1].num + a[i][2] * b[j][2].num,
             den |-> b[j][1].den]]]

\* cosine_similarity(embedding, valid_size, valid_window)
CosineSimilarity ==
    /\ pc = "cosine_similarity"
    /\ cs.state = "called"
    /\ \E common \in [1..(cs.valid_size \div 2) -> 0..(cs.valid_window - 1)] :
       \E rare \in [1..(cs.valid_size \div 2) -> cs.valid_window..(2 * cs.valid_window - 1)] :
            LET valid_examples == common \o rare
                embed_vectors == cs.weight
                embed_norm == EmbedNorm(embed_vectors)
                valid_vectors == ValidVectors(embed_vectors, valid_examples)
            IN cs' = [cs EXCEPT !.state = "returned",
                                !.valid_examples = valid_examples,
                                !.similarities = MatMulT(valid_vectors, embed_norm)]
    /\ UNCHANGED <<pc, words, vocab_to_int, int_to_vocab, threshold, keep_prob, train_words, freqs, gt, gb>>

InitCosine ==
    /\ pc = "cosine_similarity"
    /\ \E V \in 2..MaxLen :
       \E weight \in [1..V -> EmbedRows] :
       \E valid_size \in ValidSizes :
       \E valid_window \in 1..(V \div 2) :
            cs = [state |-> "called", weight |-> weight, valid_size |-> valid_size,
                  valid_window |-> valid_window, valid_examples |-> <<>>,
                  similarities |-> <<>>]
    /\ words = <<>>
    /\ threshold = [num |-> 0, den |-> 1, eps2 |-> 0]
    /\ vocab_to_int = EmptyMap
    /\ int_to_vocab = EmptyMap
    /\ keep_prob = <<>>
    /\ train_words = <<>>
    /\ freqs = EmptyMap
    /\ gt = Idle
    /\ gb = Idle

NextCosine == CosineSimilarity

SpecCosine == InitCosine /\ [][NextCosine]_vars

(***************************************************************************)
(* Properties                                                              *)
(***************************************************************************)

\* ceil(n / b) for n >= 0, b >= 1.
CeilDiv(n, b) == (n + b - 1) \div b

C2_WindowInsideChunk ==
    (pc = "get_batches" /\ gb.state = "yielded") =>
        LET n == Len(gb.words)
            lo == (gb.n_yielded - 1) * gb.batch_size
            hi == Min(lo + gb.batch_size, n) - 1
        IN \A k \in 1..Max(Len(gb.inputs), Len(gb.targets)) :
            /\ k <= Len(gb.inputs)
            /\ k <= Len(gb.targets)
            /\ \E i \in lo..hi : \E j \in lo..hi :
                /\ At(gb.words, i) = gb.inputs[k]
                /\ At(gb.words, j) = gb.targets[k]
                /\ j /= i
                /\ i - j <= gb.window_size
                /\ j - i <= gb.window_size

\* The first chunk of <<0, 1, 2>> with batch_size 2 and window_size 2: the
\* window of position 1 would reach the 2 of the next chunk, and does not.
C2_Witness ==
    /\ pc = "get_batches"
    /\ gb.state = "yielded"
    /\ gb.words = <<0, 1, 2>>
    /\ gb.batch_size = 2
    /\ gb.window_size = 2
    /\ gb.n_yielded = 1
    /\ gb.inputs = <<0, 1>>
    /\ gb.targets = <<1, 0>>

\* C3: inputs and targets of a yielded pair have the same length.
C3_EqualLengths ==
    (pc = "get_batches" /\ gb.state = "yielded") => Len(gb.inputs) = Len(gb.targets)

\* A three-item chunk whose positions contribute 1, 2 and 1 context items.
C3_Witness ==
    /\ pc = "get_batches"
    /\ gb.state = "yielded"
    /\ Len(gb.batch) = 3
    /\ Len(gb.inputs) = 4
    /\ Len(gb.targets) = 4

\* s is a subsequence of t: the items of s occur in t in the same order.
RECURSIVE IsSubseq(_, _)
IsSubseq(s, t) ==
    IF s = <<>> THEN TRUE
    ELSE IF t = <<>> THEN FALSE
    ELSE IF s[1] = t[1] THEN IsSubseq(Tail(s), Tail(t))
    ELSE IsSubseq(s, Tail(t))

\* The input tokens mapped through vocab_to_int.
Encoded == [k \in 1..Len(words) |-> vocab_to_int[words[k]]]

\* C4: the ids subsample_words returns are a subsequence of the encoded
\* input: no longer than it, and in the original relative order.
C4_OrderPreservingSubsequence ==
    pc = "done" =>
        /\ Len(train_words) <= Len(words)
        /\ IsSubseq(train_words, Encoded)

\* Both occurrences of the frequent token are dropped, the two rarer
\* tokens survive in their order.
C4_Witness ==
    /\ pc = "done"
    /\ words = <<"a", "b", "a", "c">>
    /\ train_words = <<1, 2>>

\* The distinct tokens of the input.
DistinctTokens == {words[k] : k \in 1..Len(words)}

\* C5: the two tables are inverse bijections between the distinct tokens
\* and the ids 0..V-1.
C5_Bijection ==
    pc \in {"subsample_words", "done"} =>
        LET V == Cardinality(DistinctTokens)
        IN /\ DOMAIN vocab_to_int = DistinctTokens
           /\ DOMAIN int_to_vocab = 0..(V - 1)
           /\ Cardinality(DOMAIN vocab_to_int) = Cardinality(DOMAIN int_to_vocab)
           /\ \A w \in DistinctTokens :
                /\ vocab_to_int[w] \in 0..(V - 1)
                /\ int_to_vocab[vocab_to_int[w]] = w
           /\ \A i \in 0..(V - 1) : vocab_to_int[int_to_vocab[i]] = i
           /\ words = <<>> => (vocab_to_int = EmptyMap /\ int_to_vocab = EmptyMap)

\* Four tokens, two of them distinct.
C5_Witness ==
    /\ pc = "subsample_words"
    /\ Len(words) = 4
    /\ Cardinality(DOMAIN vocab_to_int) = 2
    /\ Cardinality(DOMAIN int_to_vocab) = 2

\* Position (from 1) of the first occurrence of w in words.
FirstIndex(w) == CHOOSE k \in 1..Len(words) : words[k] = w /\ \A m \in 1..(k - 1) : words[m] /= w

\* C6: ids are assigned by descending occurrence count, and tokens with
\* equal counts in the order of their first occurrence.
C6_DescendingFrequency ==
    pc \in {"subsample_words", "done"} =>
        \A i \in DOMAIN int_to_vocab : \A j \in DOMAIN int_to_vocab :
            i < j =>
                /\ CountOf(int_to_vocab[i], words) >= CountOf(int_to_vocab[j], words)
                /\ CountOf(int_to_vocab[i], words) = CountOf(int_to_vocab[j], words)
                     => FirstIndex(int_to_vocab[i]) < FirstIndex(int_to_vocab[j])

\* "a" occurs twice but is seen after "c"; "c" and "b" tie and "c" is seen
\* first.
C6_Witness ==
    /\ pc = "subsample_words"
    /\ words = <<"c", "a", "b", "a">>
    /\ int_to_vocab[0] = "a"
    /\ int_to_vocab[1] = "c"
    /\ int_to_vocab[2] = "b"

\* C7: for an idx inside the sequence, get_target returns the items at the
\* positions [max(0, idx-R), min(len, idx+R+1)) other than idx, from left
\* to right: end-start-1 items, between 0 and 2*window_size of them.
C7_WindowContents ==
    (pc = "get_target" /\ gt.state = "returned"
        /\ 0 <= gt.idx /\ gt.idx < Len(gt.words)) =>
        LET start == Max(0, gt.idx - gt.R)
            end == Min(Len(gt.words), gt.idx + gt.R + 1)
            out == gt.target_words
        IN /\ gt.R \in 1..gt.window_size
           /\ Len(out) = end - start - 1
           /\ Len(out) \in 0..(2 * gt.window_size)
           /\ \A k \in 1..Len(out) :
                out[k] = At(gt.words, IF start + k - 1 < gt.idx THEN start + k - 1 ELSE start + k)

\* idx 1 of four items with R = 2: one item to the left, two to the right.
C7_Witness ==
    /\ pc = "get_target"
    /\ gt.state = "returned"
    /\ Len(gt.words) = 4
    /\ gt.idx = 1
    /\ gt.R = 2
    /\ Len(gt.target_words) = 3

\* C8: a call of get_target with idx outside the sequence does not return
\* a list of context items.
C8_OutOfBoundsNeverReturns ==
    (pc = "get_target" /\ gt.state = "returned") =>
        (0 <= gt.idx /\ gt.idx < Len(gt.words))

\* C9: similarities has valid_size rows and V columns, entry (i, j) is the
\* dot product of the two rows divided by both their lengths, and the
\* entry of a validation word in its own column is 1.
C9_BothOperandsNormalised ==
    (pc = "cosine_similarity" /\ cs.state = "returned") =>
        /\ Len(cs.similarities) = cs.valid_size
        /\ \A i \in 1..Len(cs.similarities) :
            LET v == At(cs.weight, cs.valid_examples[i])
                row == cs.similarities[i]
            IN /\ Len(row) = Len(cs.weight)
               /\ \A j \in 1..Len(row) :
                    row[j].num * (Norm(v) * Norm(cs.weight[j]))
                        = Dot(v, cs.weight[j]) * row[j].den
               /\ At(row, cs.valid_examples[i]).num = At(row, cs.valid_examples[i]).den

\* The frequency c/n is below the threshold t.
FreqBelow(c, n, t) ==
    c * t.den < t.num * n \/ (c * t.den = t.num * n /\ t.eps2 > 0)

\* The frequency c/n plus the guard 1e-10 is below the threshold t, which
\* is when 1 - sqrt(t / (c/n + 1e-10)) is negative.
DiscardProbNegative(c, n, t) ==
    c * t.den < t.num * n \/ (c * t.den = t.num * n /\ t.eps2 > 2)

\* Every occurrence of the token w is kept.
AllKept(w) == CountOf(vocab_to_int[w], train_words) = CountOf(w, words)

====
